---- MODULE Spec2Model ----
(***************************************************************************)
(* Country Currency & Exchange API (Deglobeal/countrys_api).               *)
(*                                                                         *)
(* The repository holds two applications over one table `countries`:       *)
(*   - app/main.py, with app/crud.py and app/services.py ("main");         *)
(*   - app/routers/countries.py and app/routers/status.py ("routers").     *)
(* and one stand-alone merge function, app/external_apis.py.               *)
(*                                                                         *)
(* Optional values (Python None) are sequences of length at most one:      *)
(* None is <<>> and a present value v is <<v>>.  Exchange rates are kept   *)
(* in tenths (20 is the rate 2.0).  A GDP figure is a rational [n, d].     *)
(***************************************************************************)
EXTENDS Integers, Sequences, FiniteSets, TLC

VARIABLES
    app,        \* which application serves the requests: "main" or "routers"
    store,      \* the rows of table countries (committed state)
    nextId,     \* the table's AUTO_INCREMENT counter
    artifact,   \* the summary image file of the serving application
    now,        \* the wall clock
    upstream,   \* what the two external APIs currently answer
    pc,         \* per client: the position of its request handler
    loc,        \* per client: the local variables of its request handler
    resp,       \* the HTTP response the last step sent, with its request
    ret         \* the last call of a merge function and what it returned

vars == <<app, store, nextId, artifact, now, upstream, pc, loc, resp, ret>>

---------------------------------------------------------------------------
(* Bounds of the model *)

MaxEntries == 2     \* longest country list the directory API answers with
MaxTime == 1        \* the clock stops ticking here
MaxId == 2          \* no insert once AUTO_INCREMENT has passed this
MaxRows == 101      \* rows of the largest table GET /countries is asked for

---------------------------------------------------------------------------
(* Optional values and numbers *)

None == <<>>
Some(v) == <<v>>

Max(a, b) == IF a >= b THEN a ELSE b

\* round() of the exact quotient num/den (den > 0): nearest, ties to even
RoundHalfEven(num, den) ==
    LET q == num \div den
        r == num - q * den
    IN  IF 2 * r < den THEN q
        ELSE IF 2 * r > den THEN q + 1
        ELSE IF q % 2 = 0 THEN q ELSE q + 1

\* a float as a rational
Rat(n, d) == [n |-> n, d |-> d]
\* a <= b for rationals with non-zero denominators of either sign
RatLeq(a, b) ==
    IF (a.d > 0) = (b.d > 0) THEN a.n * b.d <= b.n * a.d
                             ELSE a.n * b.d >= b.n * a.d

---------------------------------------------------------------------------
(* app/services.py: ExternalAPIService *)

\* extract_currency_code: the code of the first currency, None for an empty list
extract_currency_code(currencies) ==
    IF Len(currencies) = 0 THEN None ELSE currencies[1]

\* calculate_estimated_gdp with a guard that forgets the sign of the rate
calculate_estimated_gdp_nosign(population, exchange_rate, random_multiplier) ==
    IF exchange_rate = None \/ exchange_rate[1] = 0
    THEN None
    ELSE LET a == IF exchange_rate[1] > 0 THEN exchange_rate[1] ELSE 0 - exchange_rate[1]
             s == IF exchange_rate[1] > 0 THEN 1 ELSE 0 - 1
         IN Some(Rat(s * RoundHalfEven(population * random_multiplier * 100, a), 10))

\* calculate_estimated_gdp: population * random(1000, 2000) / exchange_rate,
\* rounded to one decimal; None for a rate that is None, zero or negative.
\* random_multiplier is the value random.uniform(1000, 2000) drew.
calculate_estimated_gdp(population, exchange_rate, random_multiplier) ==
    IF exchange_rate = None \/ exchange_rate[1] = 0 \/ exchange_rate[1] <= 0
    THEN None
    ELSE Some(Rat(RoundHalfEven(population * random_multiplier * 100,
                                exchange_rate[1]), 10))

\* the loop body of get_processed_country_data (lines 70-95), for one country
\* entry; t is what datetime.now(pytz.UTC) reads
services_merge(country, exchange_rates, random_multiplier, t) ==
    LET currency_code == extract_currency_code(country.currencies)
        exchange_rate == IF currency_code # None /\ currency_code[1] \in DOMAIN exchange_rates
                         THEN Some(exchange_rates[currency_code[1]])
                         ELSE None
        population == country.population
        estimated_gdp == calculate_estimated_gdp(population, exchange_rate, random_multiplier)
    IN  [name |-> country.name, capital |-> country.capital, region |-> country.region,
         population |-> population, currency_code |-> currency_code,
         exchange_rate |-> exchange_rate, estimated_gdp |-> estimated_gdp,
         flag_url |-> country.flag, last_refreshed_at |-> t]

---------------------------------------------------------------------------
(* app/external_apis.py: ExternalAPIs.process_country_data *)

\* returns [exc, record]: exc names the exception raised, "" for a normal return
process_country_data(country_data, exchange_rates, random_multiplier) ==
    LET currency_code == IF Len(country_data.currencies) > 0
                         THEN country_data.currencies[1] ELSE None
        has_rate == currency_code # None /\ currency_code[1] \in DOMAIN exchange_rates
        exchange_rate == IF has_rate THEN Some(exchange_rates[currency_code[1]]) ELSE None
        estimated_gdp ==
            IF has_rate
            THEN Some(Rat(country_data.population * random_multiplier * 10, exchange_rate[1]))
            ELSE IF currency_code # None THEN None
            ELSE Some(Rat(0, 1))
    IN  [exc |-> IF has_rate /\ exchange_rate[1] = 0 THEN "ZeroDivisionError" ELSE "",
         record |-> [name |-> country_data.name, capital |-> country_data.capital,
                     region |-> country_data.region, population |-> country_data.population,
                     currency_code |-> currency_code, exchange_rate |-> exchange_rate,
                     estimated_gdp |-> estimated_gdp, flag_url |-> country_data.flag]]

---------------------------------------------------------------------------
(* app/routers/countries.py: the merge inside refresh_countries *)

\* utils.compute_gdp is not part of the sources; it follows spec.md 4.3:
\* population * multiplier / rate to one decimal for a strictly positive rate
compute_gdp(population, exchange_rate, random_multiplier) ==
    IF exchange_rate = None \/ exchange_rate[1] <= 0
    THEN None
    ELSE Some(Rat(RoundHalfEven(population * random_multiplier * 100,
                                exchange_rate[1]), 10))

\* lines 21-29: the fields of one country entry, merged with exchange_data
routers_merge(c, exchange_data, random_multiplier) ==
    LET currency_code == IF Len(c.currencies) > 0 THEN c.currencies[1] ELSE None
        exchange_rate == IF currency_code # None /\ currency_code[1] \in DOMAIN exchange_data
                         THEN Some(exchange_data[currency_code[1]]) ELSE None
        gdp == IF exchange_rate # None /\ exchange_rate[1] # 0
               THEN compute_gdp(c.population, exchange_rate, random_multiplier)
               ELSE Some(Rat(0, 1))
    IN  [name |-> c.name, capital |-> c.capital, region |-> c.region,
         population |-> c.population, currency_code |-> currency_code,
         exchange_rate |-> exchange_rate, estimated_gdp |-> gdp, flag_url |-> c.flag]

---------------------------------------------------------------------------
(* The data the model draws from *)

Names == {"Fiji", "image"}              \* country names the directory API lists
PathNames == Names \cup {"fiji"}       \* what a client puts in /countries/{name}
Codes == {"USD", "XAF"}
RefreshMultipliers == {1000, 2000}      \* draws of random.uniform(1000, 2000)

\* what random.uniform draws for the n entries of one request of main: the
\* draws of one request are taken equal, those of two requests differ
RefreshDraws(n) == {[i \in 1..n |-> m] : m \in RefreshMultipliers}

\* str.lower(), as ILIKE compares
Lower(s) == IF s = "Fiji" THEN "fiji"
            ELSE IF s = "Oceania" THEN "oceania"
            ELSE IF s = "USD" THEN "usd"
            ELSE s
ilike(column, pattern) == Lower(column) = Lower(pattern)

\* country entries of the directory API: one with a currency, one without
RefreshEntries ==
    {[name |-> "Fiji", capital |-> Some("Suva"), region |-> Some("Oceania"), population |-> 3,
      flag |-> None, currencies |-> <<Some("USD")>>],
     [name |-> "image", capital |-> None, region |-> None, population |-> 3,
      flag |-> None, currencies |-> <<>>]}

RECURSIVE SeqsUpTo(_, _)
SeqsUpTo(S, n) ==
    IF n = 0 THEN {<<>>}
    ELSE LET shorter == SeqsUpTo(S, n - 1)
         IN  shorter \cup {Append(q, x) : q \in {r \in shorter : Len(r) = n - 1}, x \in S}

\* the answers of the two external APIs
RefreshUpstream ==
    [countries : SeqsUpTo(RefreshEntries, MaxEntries),
     rates : {<<>>} \cup [{"USD"} -> {20}]]

NoResponse == [client |-> "", method |-> "", path |-> <<>>, query |-> <<>>, handler |-> "",
               status |-> 0, media |-> "", body |-> [none |-> TRUE]]
NoCall == [fn |-> "", args |-> <<>>, out |-> <<>>]
NoFile == [exists |-> FALSE, total |-> 0, last |-> None]

---------------------------------------------------------------------------
(* app/models.py and app/crud.py: table countries and its queries.         *)
(* db is the set of committed rows.                                        *)

\* a row of table countries (models.Country) built from keyword fields
Country(id, f) ==
    [id |-> id, name |-> f.name, capital |-> f.capital, region |-> f.region,
     population |-> f.population, currency_code |-> f.currency_code,
     exchange_rate |-> f.exchange_rate, estimated_gdp |-> f.estimated_gdp,
     flag_url |-> f.flag_url, last_refreshed_at |-> f.last_refreshed_at]

\* query(...).first(): None or one of the rows of q
first(q) == IF q = {} THEN None ELSE Some(CHOOSE r \in q : \A o \in q : r.id <= o.id)

get_country_by_name(db, name) == first({r \in db : r.name = name})

\* an INSERT that the table takes without looking at column name
create_country_unchecked(db, id, country) ==
    [exc |-> "", db |-> db \cup {Country(id, country)}, nextId |-> id + 1]

\* create_country: INSERT and commit; name is UNIQUE (models.py line 10)
create_country(db, id, country) ==
    IF \E r \in db : r.name = country.name
    THEN [exc |-> "IntegrityError", db |-> db, nextId |-> id]
    ELSE [exc |-> "", db |-> db \cup {Country(id, country)}, nextId |-> id + 1]

\* an UPDATE without its WHERE clause: every row takes the merged values
update_country_all(db, name, country_data) ==
    IF get_country_by_name(db, name) = None
    THEN db
    ELSE {IF r.name = name THEN Country(r.id, country_data)
          ELSE [Country(r.id, country_data) EXCEPT !.name = r.name] : r \in db}

\* update_country: None when no row has the name, else UPDATE ... WHERE name = name
update_country(db, name, country_data) ==
    IF get_country_by_name(db, name) = None
    THEN db
    ELSE {IF r.name = name THEN Country(r.id, country_data) ELSE r : r \in db}

\* delete_country: [ok, db]
delete_country(db, name) ==
    LET country == first({r \in db : r.name = name})
    IN  IF country # None THEN [ok |-> TRUE, db |-> db \ {country[1]}]
                          ELSE [ok |-> FALSE, db |-> db]

\* a count that skips the rows without a GDP figure
get_countries_count_gdp(db) == Cardinality({r \in db : r.estimated_gdp # None})

get_countries_count(db) == Cardinality(db)

get_latest_refresh_time(db) ==
    IF db = {} THEN None
    ELSE Some((CHOOSE r \in db : \A o \in db : o.last_refreshed_at <= r.last_refreshed_at)
              .last_refreshed_at)

\* every sequence that lists the rows of q once
Orderings(q) ==
    {s \in [1..Cardinality(q) -> q] : \A i, j \in 1..Cardinality(q) : s[i] = s[j] => i = j}

\* ORDER BY: the orderings of q that agree with the order Leq; rows that
\* compare equal come in either order
\* (when no two rows compare equal there is one, which has at place i the
\* row with i rows before or with it)
OrderBy(q, Leq(_, _)) ==
    LET n == Cardinality(q)
        ranked == {<<Cardinality({o \in q : Leq(o, r)}), r>> : r \in q}
    IN  IF {p[1] : p \in ranked} = 1..n
        THEN {[i \in 1..n |-> (CHOOSE p \in ranked : p[1] = i)[2]]}
        ELSE {s \in Orderings(q) : \A i, j \in 1..n : i < j => Leq(s[i], s[j])}

\* the names in ascending order of column name
\* (digits sort before letters, capitals before small letters)
Alphabet ==
    [i \in 1..(MaxRows + 3) |->
        IF i <= MaxRows THEN ToString(1000 + i) ELSE <<"Fiji", "Tonga", "image">>[i - MaxRows]]
NameRanks ==
    [n \in {Alphabet[i] : i \in 1..Len(Alphabet)} |->
        CHOOSE i \in 1..Len(Alphabet) : Alphabet[i] = n]
NameRank(n) == NameRanks[n]

\* column orders (a before-or-with b); NULL sorts below every value (MySQL)
NameAsc(a, b) == NameRank(a.name) <= NameRank(b.name)
GdpAsc(a, b) ==
    \/ a.estimated_gdp = None
    \/ b.estimated_gdp # None /\ RatLeq(a.estimated_gdp[1], b.estimated_gdp[1])
GdpDesc(a, b) == GdpAsc(b, a)
PopulationAsc(a, b) == a.population <= b.population
PopulationDesc(a, b) == b.population <= a.population

DefaultLimit == 100     \* crud.get_countries: limit: int = 100
RenderLimit == 1000     \* main.refresh_countries: get_countries(db, limit=1000)

\* query.offset(skip).limit(limit)
Page(s, skip, limit) ==
    IF skip >= Len(s) THEN <<>>
    ELSE SubSeq(s, skip + 1, IF skip + limit < Len(s) THEN skip + limit ELSE Len(s))

\* get_countries with the region filter left out
get_countries_nofilter(db, skip, limit, region, currency, sort_by) ==
    LET q == {r \in db : currency # None /\ currency # Some("") => r.currency_code = currency}
        ordered == IF sort_by = "gdp_desc" THEN OrderBy(q, GdpDesc)
                   ELSE IF sort_by = "gdp_asc" THEN OrderBy(q, GdpAsc)
                   ELSE IF sort_by = "population_desc" THEN OrderBy(q, PopulationDesc)
                   ELSE IF sort_by = "population_asc" THEN OrderBy(q, PopulationAsc)
                   ELSE OrderBy(q, NameAsc)
    IN  {Page(s, skip, limit) : s \in ordered}

\* get_countries with ORDER BY estimated_gdp ascending where descending is asked
get_countries_gdpasc(db, skip, limit, region, currency, sort_by) ==
    LET q == {r \in db :
                /\ region # None /\ region # Some("") => r.region = region
                /\ currency # None /\ currency # Some("") => r.currency_code = currency}
        ordered == IF sort_by = "gdp_desc" THEN OrderBy(q, GdpAsc)
                   ELSE IF sort_by = "gdp_asc" THEN OrderBy(q, GdpAsc)
                   ELSE IF sort_by = "population_desc" THEN OrderBy(q, PopulationDesc)
                   ELSE IF sort_by = "population_asc" THEN OrderBy(q, PopulationAsc)
                   ELSE OrderBy(q, NameAsc)
    IN  {Page(s, skip, limit) : s \in ordered}

\* get_countries: the result lists the query can produce.  region, currency
\* are optional strings ("if region:" skips None and ""), sort_by a string
get_countries(db, skip, limit, region, currency, sort_by) ==
    LET q == {r \in db :
                /\ region # None /\ region # Some("") => r.region = region
                /\ currency # None /\ currency # Some("") => r.currency_code = currency}
        ordered == IF sort_by = "gdp_desc" THEN OrderBy(q, GdpDesc)
                   ELSE IF sort_by = "gdp_asc" THEN OrderBy(q, GdpAsc)
                   ELSE IF sort_by = "population_desc" THEN OrderBy(q, PopulationDesc)
                   ELSE IF sort_by = "population_asc" THEN OrderBy(q, PopulationAsc)
                   ELSE OrderBy(q, NameAsc)
    IN  {Page(s, skip, limit) : s \in ordered}

---------------------------------------------------------------------------
(* HTTP: responses and route dispatch (FastAPI)                            *)

Response(status, media, body) == [status |-> status, media |-> media, body |-> body]

\* raise HTTPException(status_code, detail): FastAPI's handler for it answers
\* the JSON object {"detail": detail}
HTTPException(status_code, detail) ==
    Response(status_code, "application/json", [detail |-> detail])

\* an exception no handler catches: Starlette answers 500 in plain text
ServerError == Response(500, "text/plain", [text |-> "Internal Server Error"])
\* no route matches
NotFound == Response(404, "application/json", [detail |-> [text |-> "Not Found"]])

\* a path is the sequence of its segments; {name} matches any one segment
Matches(pattern, path) ==
    /\ Len(pattern) = Len(path)
    /\ \A i \in 1..Len(path) : pattern[i] = "{name}" \/ pattern[i] = path[i]

Route(method, pattern, handler) == [method |-> method, pattern |-> pattern, handler |-> handler]

\* the routes of app/main.py in the order of their decorators
MainRoutes ==
    << Route("GET", <<>>, "read_root"),
       Route("GET", <<"health">>, "health_check"),
       Route("GET", <<"test-db">>, "test_db_connection"),
       Route("GET", <<>>, "root"),
       Route("POST", <<"countries", "refresh">>, "refresh_countries"),
       Route("GET", <<"countries">>, "get_countries"),
       Route("GET", <<"countries", "{name}">>, "get_country"),
       Route("DELETE", <<"countries", "{name}">>, "delete_country"),
       Route("GET", <<"status">>, "get_status"),
       Route("GET", <<"countries", "image">>, "get_countries_image") >>

\* the routes of app/routers/countries.py, then of app/routers/status.py
RouterRoutes ==
    << Route("POST", <<"countries", "refresh">>, "refresh_countries"),
       Route("GET", <<"countries">>, "get_countries"),
       Route("GET", <<"countries", "{name}">>, "get_country"),
       Route("DELETE", <<"countries", "{name}">>, "delete_country"),
       Route("GET", <<"countries", "image">>, "get_summary_image"),
       Route("GET", <<"status">>, "get_status") >>

Routes(a) == IF a = "main" THEN MainRoutes ELSE RouterRoutes

\* Starlette's router: the first route, in order, that matches
Dispatch(routes, method, path) ==
    LET hits == {i \in 1..Len(routes) :
                    routes[i].method = method /\ Matches(routes[i].pattern, path)}
    IN  IF hits = {} THEN ""
        ELSE routes[CHOOSE i \in hits : \A j \in hits : i <= j].handler

Requests ==
    {[method |-> "POST", path |-> <<"countries", "refresh">>],
     [method |-> "GET", path |-> <<"countries">>],
     [method |-> "GET", path |-> <<"status">>]}
    \cup [method : {"GET", "DELETE"}, path : {<<"countries", n>> : n \in PathNames}]

---------------------------------------------------------------------------
(* app/main.py: the handlers that answer in one step *)

get_country(db, name) ==
    LET country == get_country_by_name(db, name)
    IN  IF country = None
        THEN HTTPException(404, [error |-> "Country not found"])
        ELSE Response(200, "application/json", country[1])

get_status(db) ==
    Response(200, "application/json",
             [total_countries |-> get_countries_count(db),
              last_refreshed_at |-> get_latest_refresh_time(db)])

\* file is cache/summary.png
get_countries_image(file) ==
    IF ~file.exists
    THEN HTTPException(404, [error |-> "Summary image not found"])
    ELSE Response(200, "image/png", file)

(* app/routers/countries.py and app/routers/status.py, likewise *)

router_get_country(db, name) ==
    LET country == first({r \in db : ilike(r.name, name)})
    IN  IF country = None
        THEN HTTPException(404, [error |-> "Country not found"])
        ELSE Response(200, "application/json", country[1])

router_get_status(db) ==
    Response(200, "application/json",
             [total_countries |-> Cardinality({r.id : r \in db}),
              last_refreshed_at |-> get_latest_refresh_time(db)])

\* file is app/cache/summary.png
get_summary_image(file) ==
    IF ~file.exists
    THEN HTTPException(404, [error |-> "Summary image not found"])
    ELSE Response(200, "image/png", file)

\* the handler's answer to a request the router gave to handler h
Handle(a, h, path, db, file) ==
    IF h = "get_country"
    THEN IF a = "main" THEN get_country(db, path[2]) ELSE router_get_country(db, path[2])
    ELSE IF h = "get_status"
    THEN IF a = "main" THEN get_status(db) ELSE router_get_status(db)
    ELSE IF h = "get_countries_image" THEN get_countries_image(file)
    ELSE IF h = "get_summary_image" THEN get_summary_image(file)
    ELSE NotFound

---------------------------------------------------------------------------
(* The service as a state machine.  A client is idle or inside a handler;  *)
(* a handler that touches the table more than once takes one step per      *)
(* query or commit, so that requests interleave as the server's threads do *)

Clients == {"c1", "c2"}

\* loc[c]: the handler's variables.  fetched, t0 and empty0 are history only:
\* which of the two fetches succeeded, the time when the request began and
\* whether the table was empty then
IdleLoc == [merged |-> <<>>, i |-> 0, existing |-> FALSE, count |-> 0,
            name |-> "", target |-> 0, dirty |-> <<>>, new |-> <<>>,
            fetched |-> <<>>, t0 |-> 0, empty0 |-> FALSE]

Answer(c, req, query, h, r) ==
    [client |-> c, method |-> req.method, path |-> req.path, query |-> query,
     handler |-> h, status |-> r.status, media |-> r.media, body |-> r.body]

RefreshRequest == [method |-> "POST", path |-> <<"countries", "refresh">>]

\* get_processed_country_data that goes on without rates when their fetch fails
get_processed_country_data_norates(countries_ok, rates_ok, up, multipliers, t) ==
    [exc |-> IF ~countries_ok THEN "Could not fetch data from RestCountries API" ELSE "",
     data |-> IF countries_ok
              THEN [i \in 1..Len(up.countries) |->
                        services_merge(up.countries[i],
                                       IF rates_ok THEN up.rates ELSE <<>>,
                                       multipliers[i], t)]
              ELSE <<>>]

\* get_processed_country_data that leaves out the countries without a currency
get_processed_country_data_skip(countries_ok, rates_ok, up, multipliers, t) ==
    [exc |-> IF ~countries_ok THEN "Could not fetch data from RestCountries API"
             ELSE IF ~rates_ok THEN "Could not fetch data from Exchange Rates API"
             ELSE "",
     data |-> IF countries_ok /\ rates_ok
              THEN SelectSeq([i \in 1..Len(up.countries) |->
                                services_merge(up.countries[i], up.rates, multipliers[i], t)],
                             LAMBDA m : m.currency_code # None)
              ELSE <<>>]

\* services.get_processed_country_data: [exc, data]; exc is the message of the
\* exception a failed fetch raises, "" when both fetches succeed.
\* countries_ok, rates_ok: whether fetch_countries_data and fetch_exchange_rates
\* get their answer
get_processed_country_data(countries_ok, rates_ok, up, multipliers, t) ==
    [exc |-> IF ~countries_ok THEN "Could not fetch data from RestCountries API"
             ELSE IF ~rates_ok THEN "Could not fetch data from Exchange Rates API"
             ELSE "",
     data |-> IF countries_ok /\ rates_ok
              THEN [i \in 1..Len(up.countries) |->
                        services_merge(up.countries[i], up.rates, multipliers[i], t)]
              ELSE <<>>]

\* utils.image_generator.generate_summary_image(total_countries, top_countries,
\* last_refresh) is not part of the sources (app/image_generator.py defines a
\* function of other parameters); after spec.md 4.5 it writes the summary file
generate_summary_image(total_countries, last_refresh) ==
    [exists |-> TRUE, total |-> total_countries, last |-> Some(last_refresh)]

(* main.refresh_countries, line 106: fetch and merge *)
RefreshFetch(c) ==
    /\ app = "main" /\ pc[c] = "idle"
    /\ Dispatch(Routes(app), "POST", RefreshRequest.path) = "refresh_countries"
    /\ \E countries_ok, rates_ok \in BOOLEAN,
          multipliers \in RefreshDraws(Len(upstream.countries)) :
        LET p == get_processed_country_data(countries_ok, rates_ok, upstream, multipliers, now)
        IN  IF p.exc # ""
            THEN /\ resp' = Answer(c, RefreshRequest, <<>>, "refresh_countries",
                                   HTTPException(503, [error |-> "External data source unavailable",
                                                       details |-> p.exc]))
                 /\ UNCHANGED <<pc, loc>>
            ELSE /\ pc' = [pc EXCEPT ![c] = IF Len(p.data) = 0 THEN "render" ELSE "lookup"]
                 /\ loc' = [loc EXCEPT ![c] = [IdleLoc EXCEPT !.merged = p.data, !.i = 1,
                                                  !.fetched = <<countries_ok, rates_ok>>,
                                                  !.t0 = now,
                                                  !.empty0 = (store = {})]]
                 /\ resp' = NoResponse
    /\ UNCHANGED <<app, store, nextId, artifact, now, upstream, ret>>

(* line 110: existing_country = crud.get_country_by_name(...) *)
UpsertLookup(c) ==
    /\ pc[c] = "lookup"
    /\ loc' = [loc EXCEPT ![c].existing =
                   get_country_by_name(store, loc[c].merged[loc[c].i].name) # None]
    /\ pc' = [pc EXCEPT ![c] = "write"]
    /\ resp' = NoResponse
    /\ UNCHANGED <<app, store, nextId, artifact, now, upstream, ret>>

(* lines 112-117: update or create, each with its own commit; an exception *)
(* leaves through the handler's except clause (lines 141-148) *)
UpsertWrite(c) ==
    /\ pc[c] = "write"
    /\ LET country_data == loc[c].merged[loc[c].i]
           done == loc[c].i = Len(loc[c].merged)
           goOn == [loc EXCEPT ![c].count = @ + 1, ![c].i = @ + 1]
       IN  IF loc[c].existing
           THEN /\ store' = update_country(store, country_data.name, country_data)
                /\ loc' = goOn
                /\ pc' = [pc EXCEPT ![c] = IF done THEN "render" ELSE "lookup"]
                /\ resp' = NoResponse
                /\ UNCHANGED nextId
           ELSE /\ nextId <= MaxId
                /\ LET r == create_country(store, nextId, country_data)
                   IN  IF r.exc # ""
                       THEN /\ resp' = Answer(c, RefreshRequest, <<>>, "refresh_countries",
                                              HTTPException(503, [error |-> "External data source unavailable",
                                                                  details |-> r.exc]))
                            /\ pc' = [pc EXCEPT ![c] = "idle"]
                            /\ loc' = [loc EXCEPT ![c] = IdleLoc]
                            /\ UNCHANGED <<store, nextId>>
                       ELSE /\ store' = r.db
                            /\ nextId' = r.nextId
                            /\ loc' = goOn
                            /\ pc' = [pc EXCEPT ![c] = IF done THEN "render" ELSE "lookup"]
                            /\ resp' = NoResponse
    /\ UNCHANGED <<app, artifact, now, upstream, ret>>

(* lines 119-139: read the table back, write the summary image, answer.  *)
(* The step is inside the handler's try: when it raises (raises = TRUE),  *)
(* the except clause of lines 141-148 answers                             *)
Render(c) ==
    /\ pc[c] = "render"
    /\ \E raises \in BOOLEAN :
        IF raises
        THEN /\ UNCHANGED artifact
             /\ resp' = Answer(c, RefreshRequest, <<>>, "refresh_countries",
                               HTTPException(503, [error |-> "External data source unavailable",
                                                   details |-> "rendering failed"]))
        ELSE /\ \E all_countries \in get_countries(store, 0, RenderLimit, None, None, "") :
                 LET latest_refresh == get_latest_refresh_time(store)
                 IN  artifact' = generate_summary_image(
                                     Len(all_countries),
                                     IF latest_refresh # None THEN latest_refresh[1] ELSE now)
             /\ resp' = Answer(c, RefreshRequest, <<>>, "refresh_countries",
                               Response(200, "application/json",
                                        [message |-> "Countries data refreshed successfully",
                                         countries_processed |-> loc[c].count,
                                         timestamp |-> now]))
    /\ pc' = [pc EXCEPT ![c] = "idle"]
    /\ loc' = [loc EXCEPT ![c] = IdleLoc]
    /\ UNCHANGED <<app, store, nextId, now, upstream, ret>>

(* main.delete_country, lines 187-189: look the country up *)
DeleteLookup(c) ==
    /\ app = "main" /\ pc[c] = "idle"
    /\ \E req \in Requests :
        /\ req.method = "DELETE"
        /\ Dispatch(Routes(app), req.method, req.path) = "delete_country"
        /\ IF get_country_by_name(store, req.path[2]) = None
           THEN /\ resp' = Answer(c, req, <<>>, "delete_country",
                                  HTTPException(404, [error |-> "Country not found"]))
                /\ UNCHANGED <<pc, loc>>
           ELSE /\ pc' = [pc EXCEPT ![c] = "delete"]
                /\ loc' = [loc EXCEPT ![c] = [IdleLoc EXCEPT !.name = req.path[2], !.t0 = now,
                                                 !.empty0 = (store = {})]]
                /\ resp' = NoResponse
    /\ UNCHANGED <<app, store, nextId, artifact, now, upstream, ret>>

(* lines 191-195: crud.delete_country and the answer *)
DeleteWrite(c) ==
    /\ pc[c] = "delete"
    /\ LET r == delete_country(store, loc[c].name)
           req == [method |-> "DELETE", path |-> <<"countries", loc[c].name>>]
       IN  /\ store' = r.db
           /\ resp' = Answer(c, req, <<>>, "delete_country",
                             IF r.ok
                             THEN Response(200, "application/json",
                                           [message |-> [text |-> "Country deleted successfully",
                                                         name |-> loc[c].name]])
                             ELSE HTTPException(500, [error |-> "Failed to delete country"]))
    /\ pc' = [pc EXCEPT ![c] = "idle"]
    /\ loc' = [loc EXCEPT ![c] = IdleLoc]
    /\ UNCHANGED <<app, nextId, artifact, now, upstream, ret>>

(* routers/countries.py refresh_countries, lines 13-17: the two fetches.   *)
(* utils.fetch_countries and utils.fetch_exchange_rates are not part of    *)
(* the sources; after spec.md 4.2 each fails when its API cannot be reached *)
RouterRefreshFetch(c) ==
    /\ app = "routers" /\ pc[c] = "idle"
    /\ Dispatch(Routes(app), "POST", RefreshRequest.path) = "refresh_countries"
    /\ \E countries_ok, rates_ok \in BOOLEAN :
        IF ~countries_ok \/ ~rates_ok
        THEN /\ resp' = Answer(c, RefreshRequest, <<>>, "refresh_countries",
                               HTTPException(503, [error |-> "External data source unavailable",
                                                   details |-> IF ~countries_ok
                                                               THEN "fetch_countries failed"
                                                               ELSE "fetch_exchange_rates failed"]))
             /\ UNCHANGED <<pc, loc>>
        ELSE /\ pc' = [pc EXCEPT ![c] = IF Len(upstream.countries) = 0 THEN "r_commit"
                                        ELSE "r_lookup"]
             /\ loc' = [loc EXCEPT ![c] = [IdleLoc EXCEPT !.merged = upstream.countries, !.i = 1,
                                              !.fetched = <<countries_ok, rates_ok>>,
                                              !.t0 = now, !.empty0 = (store = {})]]
             /\ resp' = NoResponse
    /\ UNCHANGED <<app, store, nextId, artifact, now, upstream, ret>>

(* lines 20-52, one turn of the loop: merge the entry, look its name up with *)
(* ILIKE, and change the row found or add a new one to the session.  The     *)
(* session does not flush before a query (database.py line 104), so the      *)
(* query sees committed rows only.  loc.merged holds countries_data; the     *)
(* rate mapping fetched with it is upstream.rates, which no step changes     *)
RouterUpsert(c) ==
    /\ pc[c] = "r_lookup"
    /\ \E random_multiplier \in RefreshMultipliers :
        LET f == routers_merge(loc[c].merged[loc[c].i], upstream.rates, random_multiplier)
            existing == first({r \in store : ilike(r.name, f.name)})
            l == [loc[c] EXCEPT !.count = @ + 1, !.i = @ + 1]
        IN  loc' = [loc EXCEPT ![c] =
                      IF existing # None
                      THEN [l EXCEPT !.dirty = Append(@, [id |-> existing[1].id, at |-> now, f |-> f])]
                      ELSE [l EXCEPT !.new = Append(@, f)]]
    /\ pc' = [pc EXCEPT ![c] = IF loc[c].i = Len(loc[c].merged) THEN "r_commit" ELSE "r_lookup"]
    /\ resp' = NoResponse
    /\ UNCHANGED <<app, store, nextId, artifact, now, upstream, ret>>

\* the row after the UPDATE the session flushes for it: every column but name
RouterUpdated(r, dirty) ==
    LET hits == {k \in 1..Len(dirty) : dirty[k].id = r.id}
    IN  IF hits = {} THEN r
        ELSE LET u == dirty[CHOOSE k \in hits : \A j \in hits : j <= k]
             IN  [r EXCEPT !.capital = u.f.capital, !.region = u.f.region,
                           !.population = u.f.population,
                           !.currency_code = u.f.currency_code,
                           !.exchange_rate = u.f.exchange_rate,
                           !.estimated_gdp = u.f.estimated_gdp,
                           !.flag_url = u.f.flag_url, !.last_refreshed_at = u.at]

\* the row an INSERT of the session makes; last_refreshed_at takes its default
RouterInserted(id, f, t) ==
    [id |-> id, name |-> f.name, capital |-> f.capital, region |-> f.region,
     population |-> f.population, currency_code |-> f.currency_code,
     exchange_rate |-> f.exchange_rate, estimated_gdp |-> f.estimated_gdp,
     flag_url |-> f.flag_url, last_refreshed_at |-> t]

\* db.commit() of the session's changes fails as a whole when a changed row
\* is gone (stale) or a name to insert is taken
CommitRejected(db, dirty, new) ==
    LET stale == \E k \in 1..Len(dirty) : \A r \in db : r.id # dirty[k].id
        taken == \/ \E k \in 1..Len(new) : \E r \in db : r.name = new[k].name
                 \/ \E j, k \in 1..Len(new) : j < k /\ new[j].name = new[k].name
    IN  stale \/ taken

(* lines 54-64: db.commit() flushes every change in one transaction; then   *)
(* the image is drawn and saved and the request answered.  Neither is inside *)
(* a try: an exception of the commit, or of the image code (raises = TRUE),  *)
(* leaves the handler                                                        *)
RouterCommit(c) ==
    /\ pc[c] = "r_commit"
    /\ nextId + Len(loc[c].new) - 1 <= MaxId
    /\ LET dirty == loc[c].dirty
           new == loc[c].new
       IN  IF CommitRejected(store, dirty, new)
           THEN /\ resp' = Answer(c, RefreshRequest, <<>>, "refresh_countries", ServerError)
                /\ UNCHANGED <<store, nextId, artifact>>
           ELSE /\ store' = {RouterUpdated(r, dirty) : r \in store}
                              \cup {RouterInserted(nextId + k - 1, new[k], now) : k \in 1..Len(new)}
                /\ nextId' = nextId + Len(new)
                /\ \E raises \in BOOLEAN :
                    IF raises
                    THEN /\ UNCHANGED artifact
                         /\ resp' = Answer(c, RefreshRequest, <<>>, "refresh_countries",
                                           ServerError)
                    ELSE /\ artifact' = [exists |-> TRUE, total |-> loc[c].count,
                                         last |-> Some(now)]
                         /\ resp' = Answer(c, RefreshRequest, <<>>, "refresh_countries",
                                           Response(200, "application/json",
                                                    [message |-> [text |-> "countries refreshed successfully",
                                                                  count |-> loc[c].count]]))
    /\ pc' = [pc EXCEPT ![c] = "idle"]
    /\ loc' = [loc EXCEPT ![c] = IdleLoc]
    /\ UNCHANGED <<app, now, upstream, ret>>

(* routers/countries.py delete_country, lines 87-89 *)
RouterDeleteLookup(c) ==
    /\ app = "routers" /\ pc[c] = "idle"
    /\ \E req \in Requests :
        /\ req.method = "DELETE"
        /\ Dispatch(Routes(app), req.method, req.path) = "delete_country"
        /\ LET country == first({r \in store : ilike(r.name, req.path[2])})
           IN  IF country = None
               THEN /\ resp' = Answer(c, req, <<>>, "delete_country",
                                      HTTPException(404, [error |-> "Country not found"]))
                    /\ UNCHANGED <<pc, loc>>
               ELSE /\ pc' = [pc EXCEPT ![c] = "r_delete"]
                    /\ loc' = [loc EXCEPT ![c] = [IdleLoc EXCEPT !.name = req.path[2],
                                                     !.target = country[1].id, !.t0 = now,
                                                     !.empty0 = (store = {})]]
                    /\ resp' = NoResponse
    /\ UNCHANGED <<app, store, nextId, artifact, now, upstream, ret>>

(* lines 90-92: DELETE the row by its key and commit *)
RouterDeleteCommit(c) ==
    /\ pc[c] = "r_delete"
    /\ store' = {r \in store : r.id # loc[c].target}
    /\ resp' = Answer(c, [method |-> "DELETE", path |-> <<"countries", loc[c].name>>], <<>>,
                      "delete_country",
                      Response(200, "application/json",
                               [message |-> [text |-> "deleted successfully",
                                             name |-> loc[c].name]]))
    /\ pc' = [pc EXCEPT ![c] = "idle"]
    /\ loc' = [loc EXCEPT ![c] = IdleLoc]
    /\ UNCHANGED <<app, nextId, artifact, now, upstream, ret>>

(* the handlers that answer in one step: get_country, get_status and the   *)
(* image handler of either application, as the router dispatches to them   *)
ServeRead(c) ==
    /\ pc[c] = "idle"
    /\ \E req \in Requests :
        LET h == Dispatch(Routes(app), req.method, req.path)
        IN  /\ h \in {"get_country", "get_status", "get_countries_image", "get_summary_image"}
            /\ resp' = Answer(c, req, <<>>, h, Handle(app, h, req.path, store, artifact))
    /\ UNCHANGED <<app, store, nextId, artifact, now, upstream, pc, loc, ret>>

Tick ==
    /\ now < MaxTime
    /\ now' = now + 1
    /\ resp' = NoResponse
    /\ UNCHANGED <<app, store, nextId, artifact, upstream, pc, loc, ret>>

\* a step of client c inside a handler that writes the table
Write(c) ==
    \/ RefreshFetch(c) \/ UpsertLookup(c) \/ UpsertWrite(c) \/ Render(c)
    \/ DeleteLookup(c) \/ DeleteWrite(c)
    \/ RouterRefreshFetch(c) \/ RouterUpsert(c) \/ RouterCommit(c)
    \/ RouterDeleteLookup(c) \/ RouterDeleteCommit(c)

Start(ups) ==
    /\ app \in {"main", "routers"}
    /\ store = {}
    /\ nextId = 1
    /\ artifact = NoFile
    /\ now = 0
    /\ upstream \in ups
    /\ pc = [c \in Clients |-> "idle"]
    /\ loc = [c \in Clients |-> IdleLoc]
    /\ resp = NoResponse
    /\ ret = NoCall

(* The service with its requests served one after the other *)
Init == Start(RefreshUpstream)

\* no other client is inside a handler
Alone(c) == \A d \in Clients \ {c} : pc[d] = "idle"

Next ==
    \/ \E c \in Clients : Alone(c) /\ RefreshFetch(c)
    \/ \E c \in Clients : Alone(c) /\ UpsertLookup(c)
    \/ \E c \in Clients : Alone(c) /\ UpsertWrite(c)
    \/ \E c \in Clients : Alone(c) /\ Render(c)
    \/ \E c \in Clients : Alone(c) /\ DeleteLookup(c)
    \/ \E c \in Clients : Alone(c) /\ DeleteWrite(c)
    \/ \E c \in Clients : Alone(c) /\ RouterRefreshFetch(c)
    \/ \E c \in Clients : Alone(c) /\ RouterUpsert(c)
    \/ \E c \in Clients : Alone(c) /\ RouterCommit(c)
    \/ \E c \in Clients : Alone(c) /\ RouterDeleteLookup(c)
    \/ \E c \in Clients : Alone(c) /\ RouterDeleteCommit(c)
    \/ \E c \in Clients : Alone(c) /\ ServeRead(c)
    \/ Tick

Spec == Init /\ [][Next]_vars

(* The service with requests in flight together.  The handlers that only   *)
(* read are left out: they change nothing a writing handler looks at.  The *)
(* clock stands still, so the requests differ in what they write by the    *)
(* random multiplier alone                                                 *)
ConcUpstream ==
    [countries : SeqsUpTo(RefreshEntries, MaxEntries), rates : [{"USD"} -> {20}]]

InitConc == Start(ConcUpstream)

NextConc == \E c \in Clients : Write(c)

SpecConc == InitConc /\ [][NextConc]_vars

(* The service started over a table that earlier refreshes have filled: the *)
(* directory API then listed the countries with another population, and it *)
(* may since have dropped a country from its list                          *)
FramePopulation == 1

\* the row an earlier refresh stored for the entry, at time 0
FrameRow(id, entry) ==
    Country(id, services_merge([entry EXCEPT !.population = FramePopulation],
                               [cur \in {"USD"} |-> 20], 1000, 0))

FrameStores ==
    LET fiji == CHOOSE e \in RefreshEntries : e.name = "Fiji"
        image == CHOOSE e \in RefreshEntries : e.name = "image"
    IN  {{FrameRow(1, image)}, {FrameRow(1, fiji), FrameRow(2, image)}}

InitFrame ==
    /\ app \in {"main", "routers"}
    /\ store \in FrameStores
    /\ nextId = Cardinality(store) + 1
    /\ artifact = [exists |-> TRUE, total |-> Cardinality(store), last |-> Some(0)]
    /\ now = 0
    /\ upstream \in ConcUpstream
    /\ pc = [c \in Clients |-> "idle"]
    /\ loc = [c \in Clients |-> IdleLoc]
    /\ resp = NoResponse
    /\ ret = NoCall

SpecFrame == InitFrame /\ [][Next]_vars

(* app/image_generator.py.  The file at cache/summary.png is [kind, total,  *)
(* last]; kind is "absent", "empty" (opened and left without content),      *)
(* "summary", "placeholder" or "pixel".  Every function returns [exc, file]: *)
(* the exception that leaves it ("" when it returns) and the file it leaves  *)
NoImage == [kind |-> "absent", total |-> 0, last |-> None]
Image(kind, total_countries, refresh_timestamp) ==
    [kind |-> kind, total |-> total_countries, last |-> Some(refresh_timestamp)]

\* renderPM.drawToFile raising: the file is as before, or opened and empty
Interrupted(file, partial) == IF partial THEN [file EXCEPT !.kind = "empty"] ELSE file

\* create_fallback_image whose except clause lets the exception go
create_fallback_image_reraise(file, total_countries, refresh_timestamp, raises, partial) ==
    IF ~raises
    THEN [exc |-> "", file |-> Image("placeholder", total_countries, refresh_timestamp)]
    ELSE [exc |-> "RenderError", file |-> Interrupted(file, partial)]

\* create_fallback_image, lines 107-139: draw the placeholder; when that
\* raises, write the bytes of a 1x1 PNG
create_fallback_image(file, total_countries, refresh_timestamp, raises, partial) ==
    IF ~raises
    THEN [exc |-> "", file |-> Image("placeholder", total_countries, refresh_timestamp)]
    ELSE [exc |-> "", file |-> [kind |-> "pixel", total |-> 0, last |-> None]]

\* create_simple_png, lines 68-105: draw the summary; when that raises, call
\* create_fallback_image from the except clause
create_simple_png(file, total_countries, refresh_timestamp, raises, fallback_raises, partial) ==
    IF ~raises
    THEN [exc |-> "", file |-> Image("summary", total_countries, refresh_timestamp)]
    ELSE create_fallback_image(Interrupted(file, partial), total_countries,
                               refresh_timestamp, fallback_raises, partial)

\* generate_summary_image of app/image_generator.py, lines 6-66: the PDF
\* canvas and create_simple_png inside one try, create_fallback_image in its
\* except clause
image_generator_generate_summary_image(file, total_countries, refresh_timestamp, pdf_raises, simple_raises, fallback_raises, partial) ==
    LET tried == IF pdf_raises THEN [exc |-> "RenderError", file |-> file]
                 ELSE create_simple_png(file, total_countries, refresh_timestamp,
                                        simple_raises, fallback_raises, partial)
    IN  IF tried.exc # ""
        THEN create_fallback_image(tried.file, total_countries, refresh_timestamp,
                                   fallback_raises, partial)
        ELSE tried

\* the files a call may find at cache/summary.png
ImageFiles == {NoImage, Image("summary", 0, 0)}

InitImage == Start({[countries |-> <<>>, rates |-> <<>>]})

CallGenerateSummaryImage ==
    /\ \E file \in ImageFiles, total_countries \in 0..MaxEntries, refresh_timestamp \in 0..MaxTime,
          pdf_raises, simple_raises, fallback_raises, partial \in BOOLEAN :
        ret' = [fn |-> "generate_summary_image",
                args |-> [file |-> file, total_countries |-> total_countries,
                          refresh_timestamp |-> refresh_timestamp,
                          pdf_raises |-> pdf_raises, simple_raises |-> simple_raises,
                          fallback_raises |-> fallback_raises, partial |-> partial],
                out |-> image_generator_generate_summary_image(
                            file, total_countries, refresh_timestamp,
                            pdf_raises, simple_raises, fallback_raises, partial)]
    /\ UNCHANGED <<app, store, nextId, artifact, now, upstream, pc, loc, resp>>

NextImage == CallGenerateSummaryImage

SpecImage == InitImage /\ [][NextImage]_vars

---------------------------------------------------------------------------
(* The merge functions called on their own.  upstream holds one country    *)
(* entry and a rate mapping; ret is the last call with its result          *)
MergePopulations == {0, 7, 1000}
MergeRates == {0 - 10, 0, 5, 30}                \* tenths: -1.0, 0.0, 0.5, 3.0
MergeMultipliers == {1000, 1500, 2000}          \* draws of random.uniform(1000, 2000)
MergeCurrencies == {<<>>, <<Some("USD")>>, <<Some("XAF")>>, <<Some("XAF"), Some("USD")>>}

MergeEntries ==
    [name : {"Fiji"}, capital : {Some("Suva")}, region : {Some("Oceania")},
     population : MergePopulations, flag : {None}, currencies : MergeCurrencies]

MergeUpstream ==
    [countries : {<<e>> : e \in MergeEntries},
     rates : {<<>>} \cup [{"USD"} -> MergeRates]]

InitMerge == Start(MergeUpstream)

CallCalculateEstimatedGdp ==
    /\ \E population \in MergePopulations, random_multiplier \in MergeMultipliers,
          exchange_rate \in {None} \cup {Some(r) : r \in MergeRates} :
        ret' = [fn |-> "calculate_estimated_gdp",
                args |-> [population |-> population, exchange_rate |-> exchange_rate,
                          random_multiplier |-> random_multiplier],
                out |-> [exc |-> "",
                         value |-> calculate_estimated_gdp(population, exchange_rate,
                                                           random_multiplier)]]
    /\ UNCHANGED <<app, store, nextId, artifact, now, upstream, pc, loc, resp>>

MergeArgs(random_multiplier) ==
    [country |-> upstream.countries[1], rates |-> upstream.rates,
     random_multiplier |-> random_multiplier]

CallServicesMerge ==
    /\ \E random_multiplier \in MergeMultipliers :
        ret' = [fn |-> "get_processed_country_data",
                args |-> MergeArgs(random_multiplier),
                out |-> [exc |-> "",
                         record |-> services_merge(upstream.countries[1], upstream.rates,
                                                   random_multiplier, now)]]
    /\ UNCHANGED <<app, store, nextId, artifact, now, upstream, pc, loc, resp>>

CallProcessCountryData ==
    /\ \E random_multiplier \in MergeMultipliers :
        ret' = [fn |-> "process_country_data",
                args |-> MergeArgs(random_multiplier),
                out |-> process_country_data(upstream.countries[1], upstream.rates,
                                             random_multiplier)]
    /\ UNCHANGED <<app, store, nextId, artifact, now, upstream, pc, loc, resp>>

CallRoutersMerge ==
    /\ \E random_multiplier \in MergeMultipliers :
        ret' = [fn |-> "refresh_countries",
                args |-> MergeArgs(random_multiplier),
                out |-> [exc |-> "",
                         record |-> routers_merge(upstream.countries[1], upstream.rates,
                                                  random_multiplier)]]
    /\ UNCHANGED <<app, store, nextId, artifact, now, upstream, pc, loc, resp>>

NextMerge ==
    \/ CallCalculateEstimatedGdp
    \/ CallServicesMerge
    \/ CallProcessCountryData
    \/ CallRoutersMerge

SpecMerge == InitMerge /\ [][NextMerge]_vars

(* The fetchers of the exchange rates.  What requests.get meets is           *)
(* [reached, status, body]: reached is FALSE when the transport fails         *)
(* (requests raises), body is [result, rates] of the JSON answer, rates the   *)
(* empty mapping when the answer has none                                     *)
FetchRates == {<<>>} \cup [{"USD"} -> {5, 20}]
RateResponses ==
    [reached : BOOLEAN, status : {200, 500},
     body : [result : {"success", "error"}, rates : FetchRates]]

\* response.raise_for_status() lets the response through
StatusOk(response) == response.reached /\ response.status < 400

\* services.ExternalAPIService.fetch_exchange_rates, lines 26-39: [exc, rates]
services_fetch_exchange_rates(response) ==
    IF StatusOk(response) /\ response.body.result = "success"
    THEN [exc |-> "", rates |-> response.body.rates]
    ELSE [exc |-> "Could not fetch data from Exchange Rates API", rates |-> <<>>]

\* external_apis.ExternalAPIs.fetch_exchange_rates, lines 20-28: [exc, rates]
external_apis_fetch_exchange_rates(response) ==
    IF StatusOk(response)
    THEN [exc |-> "", rates |-> response.body.rates]
    ELSE [exc |-> "Could not fetch data from exchange rates API", rates |-> <<>>]

\* country entries the merges are called with after a fetch
FetchEntries == {e \in MergeEntries : e.population = 7 /\ Len(e.currencies) <= 1}

InitFetch == Start({[countries |-> <<>>, rates |-> <<>>]})

CallServicesFetchExchangeRates ==
    /\ \E response \in RateResponses :
        ret' = [fn |-> "services.fetch_exchange_rates",
                args |-> [response |-> response],
                out |-> services_fetch_exchange_rates(response)]
    /\ UNCHANGED <<app, store, nextId, artifact, now, upstream, pc, loc, resp>>

CallExternalApisFetchExchangeRates ==
    /\ \E response \in RateResponses :
        ret' = [fn |-> "external_apis.fetch_exchange_rates",
                args |-> [response |-> response],
                out |-> external_apis_fetch_exchange_rates(response)]
    /\ UNCHANGED <<app, store, nextId, artifact, now, upstream, pc, loc, resp>>

(* services.get_processed_country_data, lines 61-101, over one entry: the  *)
(* rates it merges are those fetch_exchange_rates returned                 *)
CallServicesFetchAndMerge ==
    /\ \E response \in RateResponses, country \in FetchEntries,
          random_multiplier \in RefreshMultipliers :
        LET fetched == services_fetch_exchange_rates(response)
            p == get_processed_country_data(TRUE, fetched.exc = "",
                                            [countries |-> <<country>>, rates |-> fetched.rates],
                                            <<random_multiplier>>, now)
        IN  ret' = [fn |-> "services.get_processed_country_data",
                    args |-> [response |-> response, country |-> country],
                    out |-> [exc |-> p.exc, records |-> p.data]]
    /\ UNCHANGED <<app, store, nextId, artifact, now, upstream, pc, loc, resp>>

(* external_apis: fetch_exchange_rates, then process_country_data with the *)
(* mapping it returned                                                     *)
CallExternalApisFetchAndMerge ==
    /\ \E response \in RateResponses, country \in FetchEntries,
          random_multiplier \in RefreshMultipliers :
        LET fetched == external_apis_fetch_exchange_rates(response)
            p == process_country_data(country, fetched.rates, random_multiplier)
        IN  ret' = [fn |-> "external_apis.process_country_data",
                    args |-> [response |-> response, country |-> country],
                    out |-> IF fetched.exc # ""
                            THEN [exc |-> fetched.exc, records |-> <<>>]
                            ELSE [exc |-> p.exc,
                                  records |-> IF p.exc = "" THEN <<p.record>> ELSE <<>>]]
    /\ UNCHANGED <<app, store, nextId, artifact, now, upstream, pc, loc, resp>>

NextFetch ==
    \/ CallServicesFetchExchangeRates
    \/ CallExternalApisFetchExchangeRates
    \/ CallServicesFetchAndMerge
    \/ CallExternalApisFetchAndMerge

SpecFetch == InitFetch /\ [][NextFetch]_vars

---------------------------------------------------------------------------
(* GET /countries over a table that refreshes have filled *)

QueryRow(id, name, region, population, currency_code, exchange_rate, estimated_gdp) ==
    Country(id, [name |-> name, capital |-> None, region |-> region,
                 population |-> population, currency_code |-> currency_code,
                 exchange_rate |-> exchange_rate, estimated_gdp |-> estimated_gdp,
                 flag_url |-> None, last_refreshed_at |-> 0])

\* rows in the order of their insertion, which is not the order of their names
QueryRows ==
    {QueryRow(1, "Tonga", Some("Oceania"), 1, Some("TOP"), None, None),
     QueryRow(1, "Tonga", Some("Oceania"), 1, Some("USD"), Some(10), Some(Rat(15000, 10))),
     QueryRow(2, "image", Some("Africa"), 2, Some("USD"), Some(10), Some(Rat(30000, 10))),
     QueryRow(2, "image", None, 2, None, None, None),
     QueryRow(3, "Fiji", Some("Oceania"), 3, Some("USD"), Some(10), Some(Rat(30000, 10))),
     QueryRow(3, "Fiji", Some("Oceania"), 3, Some("USD"), Some(20), Some(Rat(22500, 10)))}

QueryStores == {db \in SUBSET QueryRows : \A r, o \in db : r.id = o.id => r = o}

QueryRegions == {None, Some(""), Some("Oceania"), Some("oceania")}
QueryCurrencies == {None, Some("USD")}
QuerySorts == {None, Some("gdp_desc"), Some("gdp_asc"), Some("population_desc"),
               Some("population_asc"), Some("name_desc")}

ListRequest == [method |-> "GET", path |-> <<"countries">>]

\* main.get_countries: sort_mapping.get(sort), then crud.get_countries
main_get_countries(db, region, currency, sort) ==
    LET sort_mapping == {"gdp_desc", "gdp_asc", "population_desc", "population_asc"}
        sort_by == IF sort # None /\ sort[1] \in sort_mapping THEN sort[1] ELSE ""
    IN  get_countries(db, 0, DefaultLimit, region, currency, sort_by)

\* routers get_countries: ILIKE filters (a NULL column matches nothing), and
\* ORDER BY for gdp_desc alone; without it the rows come in any order
router_get_countries(db, region, currency, sort) ==
    LET q == {r \in db :
                /\ (region # None /\ region # Some("")) =>
                      (r.region # None /\ ilike(r.region[1], region[1]))
                /\ (currency # None /\ currency # Some("")) =>
                      (r.currency_code # None /\ ilike(r.currency_code[1], currency[1]))}
    IN  IF sort = Some("gdp_desc") THEN OrderBy(q, GdpDesc) ELSE Orderings(q)

InitQuery ==
    /\ app \in {"main", "routers"}
    /\ store \in QueryStores
    /\ nextId = 4
    /\ artifact = [exists |-> TRUE, total |-> 3, last |-> Some(0)]
    /\ now = 0
    /\ upstream \in [countries : {<<>>}, rates : {<<>>}]
    /\ pc = [c \in Clients |-> "idle"]
    /\ loc = [c \in Clients |-> IdleLoc]
    /\ resp = NoResponse
    /\ ret = NoCall

ListQuery(region, currency, sort) == [region |-> region, currency |-> currency, sort |-> sort]

ListCountries(c) ==
    /\ app = "main" /\ pc[c] = "idle"
    /\ Dispatch(Routes(app), ListRequest.method, ListRequest.path) = "get_countries"
    /\ \E region \in QueryRegions, currency \in QueryCurrencies, sort \in QuerySorts :
        \E countries \in main_get_countries(store, region, currency, sort) :
            resp' = Answer(c, ListRequest, ListQuery(region, currency, sort), "get_countries",
                           Response(200, "application/json", [items |-> countries]))
    /\ UNCHANGED <<app, store, nextId, artifact, now, upstream, pc, loc, ret>>

RouterListCountries(c) ==
    /\ app = "routers" /\ pc[c] = "idle"
    /\ Dispatch(Routes(app), ListRequest.method, ListRequest.path) = "get_countries"
    /\ \E region \in QueryRegions, currency \in QueryCurrencies, sort \in QuerySorts :
        \E countries \in router_get_countries(store, region, currency, sort) :
            resp' = Answer(c, ListRequest, ListQuery(region, currency, sort), "get_countries",
                           Response(200, "application/json", [items |-> countries]))
    /\ UNCHANGED <<app, store, nextId, artifact, now, upstream, pc, loc, ret>>

NextQuery == \E c \in Clients : ListCountries(c) \/ RouterListCountries(c)

SpecQuery == InitQuery /\ [][NextQuery]_vars

(* GET /countries and GET /status of main.py over a table of about a hundred *)
(* rows, named "1001", "1002", ... in the order of their insertion           *)
LargeRow(i) ==
    QueryRow(i, ToString(1000 + i),
             IF i % 2 = 1 THEN Some("Oceania") ELSE Some("Africa"),
             i,
             IF i % 3 = 0 THEN None ELSE Some("USD"),
             IF i % 3 = 0 THEN None ELSE Some(10),
             IF i % 3 = 0 THEN None ELSE Some(Rat(i * 1000, 10)))

LargeSizes == (MaxRows - 7)..MaxRows
LargeStores == {{LargeRow(i) : i \in 1..n} : n \in LargeSizes}

\* the query parameters asked with: none, a region, a currency, a sort
LargeQueries ==
    {ListQuery(None, None, None), ListQuery(Some("Oceania"), None, None),
     ListQuery(None, Some("USD"), None), ListQuery(None, None, Some("population_desc"))}

InitLarge ==
    /\ app = "main"
    /\ store \in LargeStores
    /\ nextId = Cardinality(store) + 1
    /\ artifact = [exists |-> TRUE, total |-> Cardinality(store), last |-> Some(0)]
    /\ now = 0
    /\ upstream \in [countries : {<<>>}, rates : {<<>>}]
    /\ pc = [c \in Clients |-> "idle"]
    /\ loc = [c \in Clients |-> IdleLoc]
    /\ resp = NoResponse
    /\ ret = NoCall

ListLargeCountries(c) ==
    /\ app = "main" /\ pc[c] = "idle"
    /\ Dispatch(Routes(app), ListRequest.method, ListRequest.path) = "get_countries"
    /\ \E query \in LargeQueries :
        \E countries \in main_get_countries(store, query.region, query.currency, query.sort) :
            resp' = Answer(c, ListRequest, query, "get_countries",
                           Response(200, "application/json", [items |-> countries]))
    /\ UNCHANGED <<app, store, nextId, artifact, now, upstream, pc, loc, ret>>

NextLarge ==
    \/ \E c \in Clients : ListLargeCountries(c)
    \/ \E c \in Clients : ServeRead(c)

SpecLarge == InitLarge /\ [][NextLarge]_vars

---------------------------------------------------------------------------
(* Claims *)

ImageRequest == [method |-> "GET", path |-> <<"countries", "image">>]
RefreshPcs == {"lookup", "write", "render", "r_lookup", "r_commit"}
StoredNames(db) == {r.name : r \in db}
\* what GET /status answers in a state with table db
StatusOf(db) == Handle(app, "get_status", <<"status">>, db, artifact).body

\* C1: whenever the summary image exists, GET /countries/image is answered 200
\* with the image as image/png; it is answered 404 only when there is no image
C1_ImageServed ==
    (resp.method = "GET" /\ resp.path = ImageRequest.path) =>
        /\ artifact.exists =>
              resp.status = 200 /\ resp.media = "image/png" /\ resp.body = artifact
        /\ resp.status = 404 => ~artifact.exists

\* C2: GET and DELETE /countries/{name} for a name no record carries answer 404
\* with the body {"error": "Country not found"} and leave the table as it was
C2_NotFoundBody ==
    [][(/\ resp' # NoResponse
        /\ resp'.handler \in {"get_country", "delete_country"}
        /\ resp'.path[2] \notin StoredNames(store))
       => /\ resp'.status = 404
          /\ resp'.body = [error |-> "Country not found"]
          /\ store' = store]_vars

\* no two rows share a name
NoDuplicateNames == \A r, o \in store : r.name = o.name => r = o

\* the names a refresh in flight writes with its next commit
WrittenNames(c) ==
    IF pc[c] = "write" THEN {loc[c].merged[loc[c].i].name}
    ELSE IF pc[c] = "r_commit" THEN {loc[c].merged[k].name : k \in 1..Len(loc[c].merged)}
    ELSE {}

\* C3: under every interleaving of refresh and delete requests no two records
\* share a name; a refresh's commit for names that are all stored already, as
\* they are when the same data is refreshed again, leaves the number of
\* records as it was, and a commit that writes a name leaves one record of it
C3_UniqueNames ==
    /\ []NoDuplicateNames
    /\ [][\A c \in Clients :
            (pc[c] \in {"write", "r_commit"} /\ pc'[c] # pc[c]) =>
                /\ WrittenNames(c) \subseteq StoredNames(store)
                      => Cardinality(store') = Cardinality(store)
                /\ \A n \in WrittenNames(c) :
                      (n \in StoredNames(store) \/ store' # store)
                          => Cardinality({r \in store' : r.name = n}) = 1]_vars

\* two refreshes raced for a name and the table turned the second insert down
C3_Witness ==
    /\ resp.handler = "refresh_countries" /\ resp.status = 503
    /\ resp.body.detail.details = "IntegrityError"
    /\ store # {}

\* the step with which client c ends a refresh that succeeds
RefreshSucceeds(c) ==
    /\ pc[c] \in {"render", "r_commit"} /\ pc'[c] = "idle"
    /\ resp'.client = c /\ resp'.status = 200

\* C4 as claimed: after a refresh of an empty table that reports
\* countries_processed = N, GET /status reports total_countries = N and a
\* last_refreshed_at between the start and the end of the refresh
C4_TotalIsProcessed ==
    [][\A c \in Clients :
          (RefreshSucceeds(c) /\ loc[c].empty0) =>
              LET status == StatusOf(store')
              IN  /\ status.total_countries = loc[c].count
                  /\ status.last_refreshed_at # None
                  /\ loc[c].t0 <= status.last_refreshed_at[1]
                  /\ status.last_refreshed_at[1] <= now']_vars

\* C4 amended: total_countries is the number of distinct names among the N
\* entries processed; last_refreshed_at lies between the start and the end of
\* the refresh when N >= 1 and is null when N = 0
C4_TotalIsDistinctNames ==
    [][\A c \in Clients :
          (RefreshSucceeds(c) /\ loc[c].empty0) =>
              LET status == StatusOf(store')
                  names == {loc[c].merged[k].name : k \in 1..Len(loc[c].merged)}
              IN  /\ loc[c].count = Len(loc[c].merged)
                  /\ status.total_countries = Cardinality(names)
                  /\ loc[c].count >= 1 =>
                        /\ status.last_refreshed_at # None
                        /\ loc[c].t0 <= status.last_refreshed_at[1]
                        /\ status.last_refreshed_at[1] <= now'
                  /\ loc[c].count = 0 => status.last_refreshed_at = None]_vars

\* a refresh of an empty table has processed two entries of one name
C4_Witness ==
    \E c \in Clients :
        /\ pc[c] = "render" /\ loc[c].empty0 /\ loc[c].count = 2
        /\ Cardinality(store) = 1
        /\ loc[c].t0 < now

\* no refresh goes on to its upserts unless both fetches succeeded
FetchedBeforeUpserts ==
    \A c \in Clients : pc[c] \in RefreshPcs => loc[c].fetched = <<TRUE, TRUE>>

\* the step in which client c's refresh fails at its fetches: answered 503,
\* with the table, the key counter and the summary image left as they were
FetchFailureStep(c) ==
    /\ resp'.status = 503
    /\ pc'[c] = "idle"
    /\ store' = store /\ nextId' = nextId /\ artifact' = artifact

\* what holds of a failed fetch: the answer is 503, its error and details
\* entries are the detail of the HTTPException, and nothing is changed
FetchFailureLeavesStore ==
    /\ []FetchedBeforeUpserts
    /\ [][\A c \in Clients :
            (pc[c] = "idle" /\ resp'.client = c /\ resp'.handler = "refresh_countries")
            => /\ FetchFailureStep(c)
               /\ DOMAIN resp'.body.detail = {"error", "details"}]_vars

\* C5: a refresh one of whose fetches fails is answered 503 with a body of
\* the two entries error and details, and it creates, changes and deletes no
\* record and does not rewrite the summary image
C5_FetchFailureChangesNothing ==
    /\ []FetchedBeforeUpserts
    /\ [][\A c \in Clients :
            (pc[c] = "idle" /\ resp'.client = c /\ resp'.handler = "refresh_countries")
            => /\ FetchFailureStep(c)
               /\ DOMAIN resp'.body = {"error", "details"}]_vars

\* the rate a merge looks up for an entry and a rate mapping
FirstCode(country) == IF Len(country.currencies) > 0 THEN country.currencies[1] ELSE None

\* C6: calculate_estimated_gdp(P, R) with P >= 0 returns None when R is None,
\* zero or negative, and for R > 0 a value G with P*1000/R <= G <= P*2000/R
\* up to the rounding to one decimal (0.05)
C6_GdpWithinRange ==
    ret.fn = "calculate_estimated_gdp" =>
        LET P == ret.args.population
            R == ret.args.exchange_rate
            G == ret.out.value
        IN  /\ (R = None \/ R[1] <= 0) => G = None
            /\ (R # None /\ R[1] > 0) =>
                  /\ G # None /\ G[1].d = 10
                  /\ 2 * G[1].n * R[1] >= 2 * P * 1000 * 100 - R[1]
                  /\ 2 * G[1].n * R[1] <= 2 * P * 2000 * 100 + R[1]

\* the formula has rounded a quotient that is no multiple of 0.1
C6_Witness ==
    /\ ret.fn = "calculate_estimated_gdp"
    /\ ret.args.population = 7 /\ ret.args.exchange_rate = Some(30)
    /\ ret.args.random_multiplier = 1000
    /\ ret.out.value = Some(Rat(23333, 10))

\* C7: for an entry whose first currency code is no key of the rate mapping,
\* each of the three merges gives a record with a null exchange rate and a
\* null estimated GDP
C7_NoRateNoGdp ==
    (/\ ret.fn \in {"get_processed_country_data", "process_country_data", "refresh_countries"}
     /\ FirstCode(ret.args.country) # None
     /\ FirstCode(ret.args.country)[1] \notin DOMAIN ret.args.rates)
    => /\ ret.out.exc = ""
       /\ ret.out.record.exchange_rate = None
       /\ ret.out.record.estimated_gdp = None

Given(param) == param # None /\ param # Some("")
Items == resp.body.items
ListAnswered == resp.handler = "get_countries" /\ resp.status = 200

\* C8: with a non-empty region R given, every record GET /countries returns
\* has region R; with a non-empty currency C given, every record returned has
\* currency code C; with both given every record has both (main.py, crud.py)
C8_FiltersHold ==
    (ListAnswered /\ app = "main") =>
        \A k \in 1..Len(Items) :
            /\ Given(resp.query.region) => Items[k].region = resp.query.region
            /\ Given(resp.query.currency) => Items[k].currency_code = resp.query.currency

\* both filters given, a record returned and a record of each filter held back
C8_Witness ==
    /\ ListAnswered /\ app = "main"
    /\ Given(resp.query.region) /\ Given(resp.query.currency)
    /\ Len(Items) >= 1
    /\ \E r \in store : r.region # resp.query.region
    /\ \E r \in store : r.region = resp.query.region /\ r.currency_code # resp.query.currency

\* C9: in the result of GET /countries?sort=gdp_desc the records with a GDP
\* come in non-increasing order of GDP, in either application
C9_GdpDescending ==
    (ListAnswered /\ resp.query.sort = Some("gdp_desc")) =>
        \A i, j \in 1..Len(Items) :
            (i < j /\ Items[i].estimated_gdp # None /\ Items[j].estimated_gdp # None)
                => RatLeq(Items[j].estimated_gdp[1], Items[i].estimated_gdp[1])

\* three records listed by gdp_desc: two with different GDPs and one without
C9_Witness ==
    /\ ListAnswered /\ resp.query.sort = Some("gdp_desc")
    /\ Len(Items) = 3
    /\ \E i, j, k \in 1..3 :
        /\ Items[i].estimated_gdp # None /\ Items[j].estimated_gdp # None
        /\ Items[i].estimated_gdp # Items[j].estimated_gdp
        /\ Items[k].estimated_gdp = None

\* C10: with sort absent or none of gdp_desc, gdp_asc, population_desc and
\* population_asc, GET /countries returns the records by name ascending, in
\* either application
C10_DefaultByName ==
    (/\ ListAnswered
     /\ resp.query.sort \notin {Some("gdp_desc"), Some("gdp_asc"),
                                Some("population_desc"), Some("population_asc")})
    => \A i, j \in 1..Len(Items) :
          i < j => NameRank(Items[i].name) < NameRank(Items[j].name)

\* C11: a refresh that succeeds reports as countries_processed the number of
\* entries of the fetched country list, and the counter goes up by one with
\* every entry, inserted or updated
C11_CountsEveryEntry ==
    [][\A c \in Clients :
          /\ RefreshSucceeds(c) =>
                /\ loc[c].count = Len(upstream.countries)
                /\ app = "main" => resp'.body.countries_processed = Len(upstream.countries)
                /\ app = "routers" => resp'.body.message.count = Len(upstream.countries)
          /\ (pc[c] \in {"write", "r_lookup"} /\ pc'[c] \in RefreshPcs /\ loc'[c] # loc[c]) =>
                /\ loc'[c].count = loc[c].count + 1
                /\ loc'[c].i = loc[c].i + 1]_vars

\* a refresh of main has counted two entries, one inserted and one updated
C11_Witness ==
    /\ app = "main"
    /\ resp.handler = "refresh_countries" /\ resp.status = 200
    /\ resp.body.countries_processed = 2
    /\ Cardinality(store) = 1 /\ nextId = 2

\* client c's refresh has made every upsert and takes the step that renders
RenderingStep(c) ==
    /\ resp'.client = c /\ resp'.handler = "refresh_countries"
    /\ \/ pc[c] = "render"
       \/ pc[c] = "r_commit" /\ ~CommitRejected(store, loc[c].dirty, loc[c].new)

\* C12: a refresh whose fetches and upserts all succeed is answered 200, in
\* main with message, countries_processed and timestamp, whether or not the
\* rendering of the summary image raises
C12_RenderFailureHidden ==
    [][\A c \in Clients :
          RenderingStep(c) =>
              /\ resp'.status = 200
              /\ app = "main" =>
                    DOMAIN resp'.body = {"message", "countries_processed", "timestamp"}]_vars

\* the store rejects the write client c's refresh is about to make
StoreRejects(c) ==
    \/ /\ pc[c] = "write" /\ ~loc[c].existing
       /\ create_country(store, nextId, loc[c].merged[loc[c].i]).exc # ""
    \/ /\ pc[c] = "r_commit"
       /\ CommitRejected(store, loc[c].dirty, loc[c].new)

\* C13: a refresh whose fetches succeeded and whose write the store rejects is
\* answered with the generic server error 500, not with the 503 of an
\* unavailable external data source
C13_RejectedWriteIsServerError ==
    [][\A c \in Clients :
          (StoreRejects(c) /\ resp'.client = c /\ resp'.handler = "refresh_countries") =>
              resp'.status = 500]_vars

\* C14: whatever runs beside it, a DELETE is answered 200 having removed the
\* record or 404, and no record is reported deleted by two requests: the
\* request answered 200 is the one whose step takes the record out
C14_DeleteOutcomes ==
    [][\A c \in Clients :
          (resp'.client = c /\ resp'.handler = "delete_country") =>
              /\ resp'.status \in {200, 404}
              /\ resp'.status = 200 => \E r \in store : r \notin store']_vars

\* no name occurs twice in the list
DistinctNames(list) ==
    \A j, k \in 1..Len(list) : j < k => list[j].name # list[k].name

\* C15: of refreshes racing on one name the last writer wins: no upsert of a
\* refresh (of a list that names each country once) is rejected, whether or
\* not the store held the name when the refresh looked it up, and the row a
\* write of main leaves under the name is the merged record of the request
\* that wrote
C15_LastWriterWins ==
    [][\A c \in Clients :
          /\ (pc[c] \in {"write", "r_commit"} /\ loc'[c] # loc[c]
                /\ DistinctNames(loc[c].merged)) => ~StoreRejects(c)
          /\ (pc[c] = "write" /\ store' # store) =>
                \E r \in store' :
                    r = Country(r.id, loc[c].merged[loc[c].i])]_vars

\* client c's refresh ends in failure with this step
RefreshFails(c) ==
    /\ pc[c] \in RefreshPcs /\ pc'[c] = "idle"
    /\ resp'.client = c /\ resp'.status # 200

\* C16: nothing is rolled back once the upserts have begun: a refresh that
\* fails after it has upserted its first k records (k >= 1) leaves those k in
\* the table, and no commit covers more than one record
C16_NoRollback ==
    [][\A c \in Clients :
          /\ (RefreshFails(c) /\ loc[c].count >= 1) =>
                \A k \in 1..loc[c].count :
                    \E r \in store' : /\ r.name = loc[c].merged[k].name
                                      /\ r.capital = loc[c].merged[k].capital
          /\ Cardinality({r \in store' : r \notin store}) <= 1]_vars

\* the names of the fetched country list
FetchedNames == {upstream.countries[k].name : k \in 1..Len(upstream.countries)}

\* the columns a refresh overwrites, as the claim lists them
Overwritten(r) ==
    <<r.population, r.capital, r.region, r.currency_code, r.exchange_rate,
      r.estimated_gdp, r.flag_url>>

\* row r of the table is the record some draw of the multiplier merges from
\* the fetched entry of its name, stamped between t0 and now
HoldsMergedValues(r, t0) ==
    /\ r.last_refreshed_at \in t0..now
    /\ \E k \in 1..Len(upstream.countries), m \in RefreshMultipliers :
          /\ upstream.countries[k].name = r.name
          /\ \/ app = "main" /\ Overwritten(r) =
                  Overwritten(services_merge(upstream.countries[k], upstream.rates, m, now))
             \/ app = "routers" /\ Overwritten(r) =
                  Overwritten([routers_merge(upstream.countries[k], upstream.rates, m)
                                   EXCEPT !.name = r.name])

\* C17: a refresh removes no record and touches none it did not see: every
\* step of a refresh keeps each row's id and name, leaves the rows whose name
\* is not in the fetched list as they are, and a row it changes holds the
\* merged values afterwards; a row disappears in a step of a DELETE only
C17_RefreshFrame ==
    [][/\ \A c \in Clients :
            (pc[c] \in RefreshPcs /\ loc'[c] # loc[c]) =>
                \A r \in store :
                    /\ \E q \in store' : q.id = r.id /\ q.name = r.name
                    /\ r.name \notin FetchedNames => r \in store'
                    /\ \A q \in store' :
                          (q.id = r.id /\ q # r) => HoldsMergedValues(q, loc[c].t0)
       /\ (\E r \in store : \A q \in store' : q.id # r.id) =>
             \E c \in Clients : pc[c] \in {"delete", "r_delete"} /\ pc'[c] = "idle"]_vars

\* a refresh has overwritten the row of a country it fetched, under its old id,
\* beside a row of a country the list no longer names, which is as it was
C17_Witness ==
    /\ upstream.countries # <<>> /\ FetchedNames = {"Fiji"}
    /\ resp.handler = "refresh_countries" /\ resp.status = 200
    /\ \E r \in store : /\ r.name = "Fiji" /\ r.id = 1 /\ r.population = 3
                        /\ r.last_refreshed_at = 1
    /\ \E r \in store : r.name = "image" /\ r.id = 2 /\ r.population = FramePopulation

\* the moves of a refresh from one position to the next: fetching and merging
\* happen in the step that leaves "idle", the upserts in "lookup", "write",
\* "r_lookup" and the commit of "r_commit", the rendering in "render" and at
\* the end of "r_commit"
StageMoves ==
    {<<"idle", "lookup">>, <<"idle", "render">>, <<"lookup", "write">>,
     <<"write", "lookup">>, <<"write", "render">>, <<"write", "idle">>,
     <<"render", "idle">>,
     <<"idle", "r_lookup">>, <<"idle", "r_commit">>, <<"r_lookup", "r_lookup">>,
     <<"r_lookup", "r_commit">>, <<"r_commit", "idle">>}

\* a refresh past its fetches has both answers and a merged record (main) or
\* an entry to merge (routers) for every entry fetched; it renders only when
\* all of them are upserted
StagesInOrder ==
    \A c \in Clients :
        /\ pc[c] \in RefreshPcs =>
              /\ loc[c].fetched = <<TRUE, TRUE>>
              /\ Len(loc[c].merged) = Len(upstream.countries)
              /\ loc[c].count = loc[c].i - 1
        /\ pc[c] \in {"render", "r_commit"} => loc[c].count = Len(loc[c].merged)

\* C18: a refresh goes through fetching, merging, upserting and rendering in
\* this order and stops: no record is written before both fetches succeeded
\* and every entry is merged, the image is written only after the last
\* upsert, and the step that fails ends the request without a later stage
C18_StageOrder ==
    /\ []StagesInOrder
    /\ [][\A c \in Clients :
            (loc'[c] # loc[c] /\ (pc[c] \in RefreshPcs \/ pc'[c] \in RefreshPcs)) =>
                /\ <<pc[c], pc'[c]>> \in StageMoves
                /\ store' # store => pc[c] \in {"write", "r_commit"}
                /\ artifact' # artifact =>
                      /\ pc[c] \in {"render", "r_commit"}
                      /\ resp'.client = c /\ resp'.status = 200
                /\ (resp'.client = c /\ resp'.status # 200) =>
                      /\ pc'[c] = "idle"
                      /\ artifact' = artifact
                      /\ pc[c] = "render" => store' = store]_vars

\* main has fetched, merged, upserted two countries and rendered at time 1
C18_Witness ==
    /\ app = "main" /\ now = 1
    /\ resp.handler = "refresh_countries" /\ resp.status = 200
    /\ StoredNames(store) = {"Fiji", "image"}
    /\ artifact.exists /\ artifact.total = 2 /\ artifact.last = Some(1)

\* C19: for every entry and rate mapping, a zero or negative rate included,
\* process_country_data returns without raising, with no GDP when the rate is
\* not strictly positive; and the record a refresh stores has no exchange
\* rate or a strictly positive one
C19_NonPositiveRates ==
    /\ ret.fn = "process_country_data" =>
          /\ ret.out.exc = ""
          /\ (ret.out.record.exchange_rate = None \/ ret.out.record.exchange_rate[1] <= 0)
                => ret.out.record.estimated_gdp = None
    /\ ret.fn = "get_processed_country_data" =>
          \/ ret.out.record.exchange_rate = None
          \/ ret.out.record.exchange_rate[1] > 0

\* C20: whichever of the PDF canvas, create_simple_png's drawing and
\* create_fallback_image's drawing raise, generate_summary_image returns and
\* leaves a file with content at cache/summary.png: the summary when nothing
\* raised, else the textual placeholder, else the 1x1 PNG
C20_FallbackChain ==
    ret.fn = "generate_summary_image" =>
        LET first_failed == ret.args.pdf_raises \/ ret.args.simple_raises
        IN  /\ ret.out.exc = ""
            /\ ret.out.file.kind \in {"summary", "placeholder", "pixel"}
            /\ ret.out.file.kind = "summary" <=> ~first_failed
            /\ ret.out.file.kind = "placeholder" <=> (first_failed /\ ~ret.args.fallback_raises)
            /\ ret.out.file.kind = "pixel" <=> (first_failed /\ ret.args.fallback_raises)

\* the drawings of create_simple_png and of create_fallback_image raised, each
\* leaving an empty file, and the 1x1 PNG is there
C20_Witness ==
    /\ ret.fn = "generate_summary_image"
    /\ ~ret.args.pdf_raises /\ ret.args.simple_raises /\ ret.args.fallback_raises
    /\ ret.args.partial /\ ret.args.file = NoImage
    /\ ret.out.exc = "" /\ ret.out.file.kind = "pixel"

\* the exchange-rate API answered with a success status and a body whose
\* result is not "success"
ReportedFailure(response) ==
    response.reached /\ response.status = 200 /\ response.body.result # "success"

\* C21: an exchange-rate response with a success status whose body reports a
\* result other than success makes each exchange-rate fetcher raise, as a
\* transport failure does, and no record is merged with rates of that response
C21_ReportedFailureRaises ==
    (/\ ret.fn \in {"services.fetch_exchange_rates", "external_apis.fetch_exchange_rates",
                    "services.get_processed_country_data",
                    "external_apis.process_country_data"}
     /\ ReportedFailure(ret.args.response))
    => /\ ret.out.exc # ""
       /\ ret.fn \in {"services.get_processed_country_data",
                      "external_apis.process_country_data"} => ret.out.records = <<>>

\* the stored records the filters of the answered request let through
Matching ==
    {r \in store :
        /\ Given(resp.query.region) => r.region = resp.query.region
        /\ Given(resp.query.currency) => r.currency_code = resp.query.currency}

\* C22: whatever the size of the table, GET /countries returns every stored
\* record that matches its filters (every record when it has none) exactly
\* once, and without filters as many records as GET /status reports in
\* total_countries
C22_EveryRecordOnce ==
    (ListAnswered /\ app = "main") =>
        /\ {Items[k] : k \in 1..Len(Items)} = Matching
        /\ Len(Items) = Cardinality(Matching)
        /\ (~Given(resp.query.region) /\ ~Given(resp.query.currency)) =>
              Len(Items) = StatusOf(store).total_countries

====
